---- MODULE Spec2Model ----
(***************************************************************************)
(* The `tree!` procedural macro of indextree-macros: the parser of the     *)
(* tree literal (IndexNode::parse, IndexTree::parse), the explicit-stack   *)
(* flattening loop of `tree` that fills action_buffer, and the execution   *)
(* of the emitted block against an arena.                                  *)
(*                                                                         *)
(* A token stream is a sequence of token trees, as a proc macro receives   *)
(* it: a brace group is ONE token holding its own stream, so braces are    *)
(* balanced by construction.  An "expr" token stands for one maximal run   *)
(* of tokens that syn::Expr consumes; its id is its span, ty its static    *)
(* type, val the existing node a NodeId-typed expression evaluates to.     *)
(***************************************************************************)
EXTENDS Integers, Sequences, FiniteSets, TLC

VARIABLES input, pc, arena_expr, root_node, nodes, stack, action_buffer,
          arena, rt_root_node, rt_node, rt_last, ip, result

vars == <<input, pc, arena_expr, root_node, nodes, stack, action_buffer,
          arena, rt_root_node, rt_node, rt_last, ip, result>>

(* ------------------------------ bounds --------------------------------- *)
\* most ChildSpec nodes in one literal
MaxSpecs == 4
\* most optional decorations (trailing commas, empty `=> {}`) in one literal
MaxDecor == 1

(* ------------------------------ tokens --------------------------------- *)
ExprTok(id, ty, val) == [k |-> "expr", id |-> id, ty |-> ty, val |-> val, body |-> <<>>]
Comma == [k |-> ",", id |-> 0, ty |-> "", val |-> 0, body |-> <<>>]
FatArrow == [k |-> "=>", id |-> 0, ty |-> "", val |-> 0, body |-> <<>>]
Brace(b) == [k |-> "{}", id |-> 0, ty |-> "", val |-> 0, body |-> b]
NoExpr == ExprTok(0, "", 0)

\* struct IndexNode { node, children }
IndexNode(e, c) == [node |-> e, children |-> c]

(* ------------------------------ parser --------------------------------- *)
ParseOk(v, rest) == [ok |-> TRUE, val |-> v, rest |-> rest]
ParseErr == [ok |-> FALSE, val |-> <<>>, rest |-> <<>>]

\* input.parse::<syn::Expr>()
ParseExpr(ts) ==
  IF ts # <<>> /\ Head(ts).k = "expr" THEN ParseOk(Head(ts), Tail(ts)) ELSE ParseErr

\* input.parse::<Token![=>]>().is_ok(); a failed parse consumes nothing
PeekFatArrow(ts) == ts # <<>> /\ Head(ts).k = "=>"

\* syn::braced!(content in input): the next token tree must be a brace group
ParseBraced(ts) ==
  IF ts # <<>> /\ Head(ts).k = "{}" THEN ParseOk(Head(ts).body, Tail(ts)) ELSE ParseErr

RECURSIVE ParseIndexNode(_), ParseTerminatedFrom(_, _), ParseTerminatedNoSep(_, _)

\* variant: the separator between two values is not required
ParseTerminatedNoSep(ts, acc) ==
  IF ts = <<>> THEN ParseOk(acc, <<>>)
  ELSE LET r == ParseIndexNode(ts) IN
       IF ~r.ok THEN ParseErr
       ELSE IF r.rest = <<>> THEN ParseOk(Append(acc, r.val), <<>>)
       ELSE IF Head(r.rest).k # "," THEN ParseTerminatedNoSep(r.rest, Append(acc, r.val))
       ELSE ParseTerminatedNoSep(Tail(r.rest), Append(acc, r.val))

\* ParseBuffer::parse_terminated(IndexNode::parse, Token![,]) from an
\* accumulated prefix: stop at the end of the stream, after a value or after
\* a comma; anything else after a value is an error
ParseTerminatedFrom(ts, acc) ==
  IF ts = <<>> THEN ParseOk(acc, <<>>)
  ELSE LET r == ParseIndexNode(ts) IN
       IF ~r.ok THEN ParseErr
       ELSE IF r.rest = <<>> THEN ParseOk(Append(acc, r.val), <<>>)
       ELSE IF Head(r.rest).k # "," THEN ParseErr
       ELSE ParseTerminatedFrom(Tail(r.rest), Append(acc, r.val))

ParseTerminated(ts) == ParseTerminatedFrom(ts, <<>>)

\* impl Parse for IndexNode
ParseIndexNode(ts) ==
  LET e == ParseExpr(ts) IN
  IF ~e.ok THEN ParseErr
  ELSE IF ~PeekFatArrow(e.rest) THEN ParseOk(IndexNode(e.val, <<>>), e.rest)
  ELSE LET b == ParseBraced(Tail(e.rest)) IN
       IF ~b.ok THEN ParseErr
       ELSE LET c == ParseTerminated(b.val) IN
            IF ~c.ok THEN ParseErr
            ELSE ParseOk(IndexNode(e.val, c.val), b.rest)

\* variant: no comma is accepted after the literal
SkipNothing(ts) == ts

\* let _ = input.parse::<Token![,]>();
SkipOptionalComma(ts) ==
  IF ts # <<>> /\ Head(ts).k = "," THEN Tail(ts) ELSE ts

IndexTree(a, r, n) == [arena |-> a, root_node |-> r, nodes |-> n]

\* impl Parse for IndexTree
ParseIndexTree(ts) ==
  LET a == ParseExpr(ts) IN
  IF ~a.ok THEN ParseErr
  ELSE IF a.rest = <<>> \/ Head(a.rest).k # "," THEN ParseErr
  ELSE LET r == ParseIndexNode(Tail(a.rest)) IN
       IF ~r.ok THEN ParseErr
       ELSE ParseOk(IndexTree(a.val, r.val.node, r.val.children),
                    SkipOptionalComma(r.rest))

\* parse_macro_input!(input as IndexTree): syn::parse fails when tokens are
\* left over after IndexTree::parse
ParseMacroInput(ts) ==
  LET t == ParseIndexTree(ts) IN
  IF t.ok /\ t.rest = <<>> THEN t ELSE ParseErr

(* --------------------------- inputs ------------------------------------ *)
\* the forests of n ChildSpec nodes whose expressions have spans
\* start, start+1, ... in source order and static type ty
RECURSIVE Forests(_, _, _)
Forests(n, start, ty) ==
  IF n = 0 THEN {<<>>}
  ELSE UNION { { <<IndexNode(ExprTok(start, ty, IF ty = "NodeId" THEN 1 ELSE 0), c)>> \o rest :
                   c \in Forests(k - 1, start + 1, ty),
                   rest \in Forests(n - k, start + k, ty) } : k \in 1..n }

\* the static types of one literal: the arena, the root expression and the
\* type shared by the child expressions.  The first five type-check, the
\* last two do not.
Typings ==
  { <<"Arena<T>", ExprTok(1, "T", 0), "T">>,
    <<"Arena<T>", ExprTok(1, "NodeId", 1), "T">>,
    <<"Arena<T>", ExprTok(1, "NodeId", 2), "T">>,
    <<"Arena<NodeId>", ExprTok(1, "NodeId", 1), "NodeId">>,
    <<"Arena<NodeId>", ExprTok(1, "NodeId", 2), "NodeId">>,
    <<"Arena<T>", ExprTok(1, "T", 0), "NodeId">>,
    <<"Arena<NodeId>", ExprTok(1, "T", 0), "T">> }
PlainTyping == <<"Arena<T>", ExprTok(1, "T", 0), "T">>

LiteralsOf(ty) ==
  UNION { { IndexTree(ExprTok(0, ty[1], 0), ty[2], f) : f \in Forests(n, 2, ty[3]) } :
          n \in 0..MaxSpecs }

RECURSIVE RenderList(_, _), RenderNode(_, _)
\* the tokens of one node; a span in `style` decorates the node: a trailing
\* comma in its children list, or an empty `=> {}` when it has no children
RenderNode(n, style) ==
  <<n.node>> \o
  (IF n.children # <<>>
     THEN <<FatArrow, Brace(RenderList(n.children, style) \o
                            (IF n.node.id \in style THEN <<Comma>> ELSE <<>>))>>
     ELSE IF n.node.id \in style THEN <<FatArrow, Brace(<<>>)>> ELSE <<>>)
RenderList(f, style) ==
  IF f = <<>> THEN <<>>
  ELSE IF Len(f) = 1 THEN RenderNode(f[1], style)
  ELSE RenderNode(f[1], style) \o <<Comma>> \o RenderList(Tail(f), style)

\* the literal as tokens; 0 in `style` puts a comma after the whole literal
Render(t, style) ==
  <<t.arena, Comma>> \o RenderNode(IndexNode(t.root_node, t.nodes), style)
    \o (IF 0 \in style THEN <<Comma>> ELSE <<>>)

RECURSIVE Size(_)
Size(f) == IF f = <<>> THEN 0 ELSE 1 + Size(f[1].children) + Size(Tail(f))

Styles(t) == {s \in SUBSET (0..(Size(t.nodes) + 1)) : Cardinality(s) <= MaxDecor}

WithBody(ts, i, b) == SubSeq(ts, 1, i - 1) \o <<Brace(b)>> \o SubSeq(ts, i + 1, Len(ts))
Groups(ts) == {i \in 1..Len(ts) : ts[i].k = "{}"}

\* every stream obtained by deleting one token tree, at any nesting level
RECURSIVE Deletions(_)
Deletions(ts) ==
  { SubSeq(ts, 1, i - 1) \o SubSeq(ts, i + 1, Len(ts)) : i \in 1..Len(ts) }
  \cup UNION { { WithBody(ts, i, b) : b \in Deletions(ts[i].body) } : i \in Groups(ts) }

\* every stream obtained by inserting one stray token, at any nesting level
StrayTokens == {Comma, FatArrow, ExprTok(99, "T", 0)}
RECURSIVE Insertions(_)
Insertions(ts) ==
  { SubSeq(ts, 1, i) \o <<x>> \o SubSeq(ts, i + 1, Len(ts)) :
      i \in 0..Len(ts), x \in StrayTokens }
  \cup UNION { { WithBody(ts, i, b) : b \in Insertions(ts[i].body) } : i \in Groups(ts) }

\* the macro's inputs: every literal in every style and typing, and, since
\* the parser never looks at a type, the damaged streams of the plain typing
InputsOf(ty, t, s) ==
  {Render(t, s)}
  \cup (IF ty = PlainTyping
          THEN Deletions(Render(t, s)) \cup Insertions(Render(t, s))
          ELSE {})

(* ------------------------- flattening pass ----------------------------- *)
\* Either::Left(IndexNode) and Either::Right(NestingLevelMarker)
Left(n) == [left |-> TRUE, node |-> n]
Right == [left |-> FALSE, node |-> IndexNode(NoExpr, <<>>)]

\* .into_iter().map(Either::Left).rev()
RECURSIVE RevLeft(_)
RevLeft(f) == IF f = <<>> THEN <<>> ELSE RevLeft(Tail(f)) \o <<Left(f[1])>>

\* variant: the .rev() is missing
InitStackNoRev(f) == [i \in 1..Len(f) |-> Left(f[i])]

\* the initial stack: the forest's nodes, reversed
InitStack(f) == RevLeft(f)

\* the instructions of the emitted block
Instr(op, e) == [op |-> op, expr |-> e]
\* let __root_node = <dispatch on #root_node>; let mut __node = __root_node;
RootInstr(e) == Instr("root", e)
\* variant: a child goes through the root's dispatch instead
AppendInstrDispatched(e) == Instr("root", e)

\* __last = __node.append_value(#node, __arena);
AppendInstr(e) == Instr("append", e)
\* __node = __last;
DescendInstr == Instr("descend", NoExpr)
\* __node = arena.get(__node).unwrap().parent().unwrap();
AscendInstr == Instr("ascend", NoExpr)
\* the block's final expression __root_node
YieldInstr == Instr("yield", NoExpr)

\* the quote! that seeds action_buffer
SeedBuffer(r) == <<RootInstr(r)>>

\* stack.pop() takes the last element of the Vec
Top(s) == s[Len(s)]
Popped(s) == SubSeq(s, 1, Len(s) - 1)

\* variant: every node is treated as having children
IsLeafNever(n) == FALSE

\* children.is_empty()
IsLeaf(n) == n.children = <<>>

\* variant: a marker emits nothing
EmitForMarkerNothing(buf) == buf

\* the let-else branch for a NestingLevelMarker
EmitForMarker(buf) == Append(buf, AscendInstr)
\* the append emitted for every IndexNode
EmitForNode(buf, n) == Append(buf, AppendInstr(n.node))
\* variant: `current` is not moved to the appended child
EmitDescendMissing(buf) == buf

\* "going one level deeper": __node = __last
EmitDescend(buf) == Append(buf, DescendInstr)

\* variant: the children are pushed without their marker
PushLevelNoMarker(s, children) == s \o RevLeft(children)

\* variant: the marker is pushed after the children, so it pops first
PushLevelMarkerLast(s, children) == Append(s \o RevLeft(children), Right)

\* "going one level deeper": the marker, then the children reversed
PushLevel(s, children) == Append(s, Right) \o RevLeft(children)

\* quote! {{ #action_buffer; __root_node }}
WrapBlock(buf) == Append(buf, YieldInstr)

\* the whole while-let loop and the final block, as a function of the stack
RECURSIVE FlattenAll(_, _)
FlattenAll(s, buf) ==
  IF s = <<>> THEN WrapBlock(buf)
  ELSE IF ~Top(s).left THEN FlattenAll(Popped(s), EmitForMarker(buf))
  ELSE IF IsLeaf(Top(s).node) THEN FlattenAll(Popped(s), EmitForNode(buf, Top(s).node))
  ELSE FlattenAll(PushLevel(Popped(s), Top(s).node.children),
                  EmitDescend(EmitForNode(buf, Top(s).node)))

(* ------------------------ the emitted block at run time ----------------- *)
\* a node of the arena: its parent (0: none), its children in order, and
\* the value it holds (the span of the expression it was built from)
Node(parent, children, data) == [parent |-> parent, children |-> children, data |-> data]
\* the arena the block runs against already holds node 1 and its child 2
InitArena == <<Node(0, <<2>>, -1), Node(1, <<>>, -1)>>

\* Arena::new_node(value): a fresh node with no parent
NewNode(a, data) == Append(a, Node(0, <<>>, data))
\* NodeId::append_value(value, arena): a fresh node, appended as the last
\* child of `parent`
AppendValue(a, parent, data) ==
  LET id == Len(a) + 1 IN
  [i \in 1..id |->
     IF i = id THEN Node(parent, <<>>, data)
     ELSE IF i = parent THEN Node(a[i].parent, Append(a[i].children, id), a[i].data)
     ELSE a[i]]

\* variant: the dispatch always takes the inserting implementation
IsNodeIdNever(e) == FALSE

\* autoref dispatch: __NodeIdToNodeId is chosen exactly for a NodeId-typed
\* expression, __ToNodeId otherwise
IsNodeId(e) == e.ty = "NodeId"

ElemType(a) == IF a.ty = "Arena<NodeId>" THEN "NodeId" ELSE "T"

RECURSIVE Exprs(_)
\* the expressions of a forest, in source order
Exprs(f) == IF f = <<>> THEN <<>>
            ELSE <<f[1].node>> \o Exprs(f[1].children) \o Exprs(Tail(f))

\* the host compiler accepts the block when the root is a NodeId or an
\* element, and every append_value argument is an element of the arena
WellTyped(a, r, f) ==
  /\ (IsNodeId(r) \/ r.ty = ElemType(a))
  /\ \A i \in 1..Len(Exprs(f)) : Exprs(f)[i].ty = ElemType(a)

(* ----------------------------- machine --------------------------------- *)
Init ==
  /\ \E ty \in Typings : \E t \in LiteralsOf(ty) : \E s \in Styles(t) :
       input \in InputsOf(ty, t, s)
  /\ pc = "parse"
  /\ arena_expr = NoExpr /\ root_node = NoExpr /\ nodes = <<>>
  /\ stack = <<>> /\ action_buffer = <<>>
  /\ arena = InitArena /\ rt_root_node = 0 /\ rt_node = 0 /\ rt_last = 0
  /\ ip = 0 /\ result = 0

compile_vars == <<input, arena_expr, root_node, nodes>>
rt_vars == <<arena, rt_root_node, rt_node, rt_last, ip, result>>

\* parse_macro_input!(input as IndexTree), returning the error on failure
Parse ==
  /\ pc = "parse"
  /\ LET t == ParseMacroInput(input) IN
     IF t.ok
       THEN /\ pc' = "seed"
            /\ arena_expr' = t.val.arena
            /\ root_node' = t.val.root_node
            /\ nodes' = t.val.nodes
       ELSE /\ pc' = "error"
            /\ UNCHANGED <<arena_expr, root_node, nodes>>
  /\ UNCHANGED <<input, stack, action_buffer>>
  /\ UNCHANGED rt_vars

\* the stack and the seed of action_buffer
Seed ==
  /\ pc = "seed"
  /\ stack' = InitStack(nodes)
  /\ action_buffer' = SeedBuffer(root_node)
  /\ pc' = "loop"
  /\ UNCHANGED compile_vars
  /\ UNCHANGED rt_vars

\* one iteration popping a NestingLevelMarker
PopMarker ==
  /\ pc = "loop" /\ stack # <<>> /\ ~Top(stack).left
  /\ action_buffer' = EmitForMarker(action_buffer)
  /\ stack' = Popped(stack)
  /\ UNCHANGED pc
  /\ UNCHANGED compile_vars
  /\ UNCHANGED rt_vars

\* one iteration popping an IndexNode without children
PopLeaf ==
  /\ pc = "loop" /\ stack # <<>> /\ Top(stack).left
  /\ IsLeaf(Top(stack).node)
  /\ action_buffer' = EmitForNode(action_buffer, Top(stack).node)
  /\ stack' = Popped(stack)
  /\ UNCHANGED pc
  /\ UNCHANGED compile_vars
  /\ UNCHANGED rt_vars

\* one iteration popping an IndexNode with children
PopParent ==
  /\ pc = "loop" /\ stack # <<>> /\ Top(stack).left
  /\ ~IsLeaf(Top(stack).node)
  /\ action_buffer' = EmitDescend(EmitForNode(action_buffer, Top(stack).node))
  /\ stack' = PushLevel(Popped(stack), Top(stack).node.children)
  /\ UNCHANGED pc
  /\ UNCHANGED compile_vars
  /\ UNCHANGED rt_vars

\* the loop ends on an empty stack; the block is returned to the compiler,
\* which type-checks it
Finish ==
  /\ pc = "loop" /\ stack = <<>>
  /\ action_buffer' = WrapBlock(action_buffer)
  /\ pc' = IF WellTyped(arena_expr, root_node, nodes) THEN "run" ELSE "type_error"
  /\ UNCHANGED stack
  /\ UNCHANGED compile_vars
  /\ UNCHANGED rt_vars

Fetch == action_buffer[ip + 1]
Running(op) == pc = "run" /\ ip < Len(action_buffer) /\ Fetch.op = op

\* the root expression is a NodeId: __NodeIdToNodeId hands it back
RunRootReuse ==
  /\ Running("root") /\ IsNodeId(Fetch.expr)
  /\ rt_root_node' = Fetch.expr.val
  /\ rt_node' = Fetch.expr.val
  /\ ip' = ip + 1
  /\ UNCHANGED <<arena, rt_last, result, pc, stack, action_buffer>>
  /\ UNCHANGED compile_vars

\* any other root expression: __ToNodeId inserts it with Arena::new_node
RunRootInsert ==
  /\ Running("root") /\ ~IsNodeId(Fetch.expr)
  /\ arena' = NewNode(arena, Fetch.expr.id)
  /\ rt_root_node' = Len(arena) + 1
  /\ rt_node' = Len(arena) + 1
  /\ ip' = ip + 1
  /\ UNCHANGED <<rt_last, result, pc, stack, action_buffer>>
  /\ UNCHANGED compile_vars

RunAppend ==
  /\ Running("append")
  /\ arena' = AppendValue(arena, rt_node, Fetch.expr.id)
  /\ rt_last' = Len(arena) + 1
  /\ ip' = ip + 1
  /\ UNCHANGED <<rt_root_node, rt_node, result, pc, stack, action_buffer>>
  /\ UNCHANGED compile_vars

RunDescend ==
  /\ Running("descend")
  /\ rt_node' = rt_last
  /\ ip' = ip + 1
  /\ UNCHANGED <<arena, rt_root_node, rt_last, result, pc, stack, action_buffer>>
  /\ UNCHANGED compile_vars

\* both unwraps: the node must be in the arena and have a parent
RunAscend ==
  /\ Running("ascend")
  /\ IF rt_node \in 1..Len(arena) /\ arena[rt_node].parent # 0
       THEN /\ rt_node' = arena[rt_node].parent
            /\ ip' = ip + 1
            /\ UNCHANGED pc
       ELSE /\ pc' = "panic"
            /\ UNCHANGED <<rt_node, ip>>
  /\ UNCHANGED <<arena, rt_root_node, rt_last, result, stack, action_buffer>>
  /\ UNCHANGED compile_vars

RunYield ==
  /\ Running("yield")
  /\ result' = rt_root_node
  /\ ip' = ip + 1
  /\ pc' = "done"
  /\ UNCHANGED <<arena, rt_root_node, rt_node, rt_last, stack, action_buffer>>
  /\ UNCHANGED compile_vars

Next ==
  \/ Parse \/ Seed \/ PopMarker \/ PopLeaf \/ PopParent \/ Finish
  \/ RunRootReuse \/ RunRootInsert \/ RunAppend \/ RunDescend \/ RunAscend
  \/ RunYield

Spec == Init /\ [][Next]_vars

(* ------------------- vocabulary of the properties ----------------------- *)
\* the expression's static type is the node identifier type
TypedNodeId(e) == e.ty = "NodeId"
Range(q) == {q[i] : i \in 1..Len(q)}
Ids(f) == [i \in 1..Len(f) |-> f[i].node.id]

RECURSIVE AllSpecs(_)
\* every ChildSpec of a forest, in source order
AllSpecs(f) == IF f = <<>> THEN <<>>
               ELSE <<f[1]>> \o AllSpecs(f[1].children) \o AllSpecs(Tail(f))

\* the sibling lists of the parsed literal: the top-level forest and every
\* non-empty children sequence, each with the span of its parent
Families ==
  {[parent |-> root_node.id, list |-> nodes]}
  \cup {[parent |-> c.node.id, list |-> c.children] : c \in Range(AllSpecs(nodes))}

LitParent(id) == (CHOOSE fam \in Families : id \in Range(Ids(fam.list))).parent

\* number of instructions `op` among the first n of the buffer
RECURSIVE CountOp(_, _, _)
CountOp(buf, op, n) ==
  IF n = 0 THEN 0
  ELSE CountOp(buf, op, n - 1) + (IF buf[n].op = op THEN 1 ELSE 0)

\* where the append of the expression with span id is emitted, 0 if not yet
Pos(id) ==
  LET at == {i \in 1..Len(action_buffer) :
               action_buffer[i].op = "append" /\ action_buffer[i].expr.id = id}
  IN IF at = {} THEN 0 ELSE CHOOSE i \in at : TRUE

Expanded == pc \in {"run", "type_error", "done", "panic"}
Executing == pc \in {"run", "done", "panic"} /\ ip >= 1

Fresh == (Len(InitArena) + 1)..Len(arena)
\* the arena node built for the expression with span id
NodeOf(id) ==
  IF id = root_node.id THEN rt_root_node
  ELSE CHOOSE n \in Fresh : arena[n].data = id
InitChildren(n) == IF n <= Len(InitArena) THEN InitArena[n].children ELSE <<>>

\* tree!(a, 1 => { 2, 3 => { 4 } })
IsScenario ==
  /\ Len(nodes) = 2 /\ nodes[1].children = <<>> /\ Len(nodes[2].children) = 1
  /\ nodes[2].children[1].children = <<>>

(* ------------------------------- C1 ------------------------------------- *)
\* C1: running the emitted instructions builds exactly the literal's shape:
\* every node appended for a ChildSpec c was appended while `current` was the
\* node built for c's parent in the literal (the root's node for top-level
\* entries); when the block ends every ChildSpec has exactly one node, the
\* new children of every node are its specs' nodes in source order, and the
\* block yields the root's identifier.  The scenario literal emits root,
\* append, append, descend, append, ascend, yield.
C1_BuildsLiteralShape ==
  /\ Executing =>
       \A n \in Fresh : arena[n].data # root_node.id =>
         arena[n].parent = NodeOf(LitParent(arena[n].data))
  /\ pc = "done" =>
       /\ result = NodeOf(root_node.id)
       /\ \A c \in Range(AllSpecs(nodes)) :
            Cardinality({n \in Fresh : arena[n].data = c.node.id}) = 1
       /\ \A fam \in Families :
            arena[NodeOf(fam.parent)].children =
              InitChildren(NodeOf(fam.parent))
                \o [i \in 1..Len(fam.list) |-> NodeOf(fam.list[i].node.id)]
  /\ Expanded /\ IsScenario =>
       [i \in 1..Len(action_buffer) |-> action_buffer[i].op] =
         <<"root", "append", "append", "descend", "append", "ascend", "yield">>

\* a finished run of a literal with a nested, non-first child
C1_Witness ==
  /\ pc = "done" /\ IsScenario /\ Len(arena) >= Len(InitArena) + 3

(* ------------------------------- C2 ------------------------------------- *)
\* C2: the emitted block holds one append per ChildSpec of the parsed forest
\* and one ascend per ChildSpec with a non-empty children sequence.
C2_InstructionCounts ==
  Expanded =>
    /\ CountOp(action_buffer, "append", Len(action_buffer)) = Len(AllSpecs(nodes))
    /\ CountOp(action_buffer, "ascend", Len(action_buffer)) =
         Cardinality({c \in Range(AllSpecs(nodes)) : c.children # <<>>})

C2_Witness ==
  /\ Expanded /\ Len(AllSpecs(nodes)) = 3
  /\ Cardinality({c \in Range(AllSpecs(nodes)) : c.children # <<>>}) = 1

(* ------------------------------- C3 ------------------------------------- *)
\* C3: for siblings A before B, once B's append is emitted, the append of A
\* and of every spec in A's subtree has been emitted, strictly before it.
C3_SiblingOrder ==
  pc \notin {"parse", "seed", "error"} =>
    \A fam \in Families : \A i, j \in 1..Len(fam.list) :
      (i < j /\ Pos(fam.list[j].node.id) # 0) =>
        \A a \in Range(AllSpecs(<<fam.list[i]>>)) :
          /\ Pos(a.node.id) # 0
          /\ Pos(a.node.id) < Pos(fam.list[j].node.id)

\* B's append is out, and A before it has a subtree of its own
C3_Witness ==
  /\ Len(nodes) = 2 /\ nodes[1].children # <<>>
  /\ Pos(nodes[2].node.id) # 0

(* ------------------------------- C4 ------------------------------------- *)
\* C4: during the traversal the markers on the stack are exactly the
\* descends not yet matched by an ascend; no prefix of the block ascends
\* more than it descended, the finished block has as many ascends as
\* descends, and a finished run leaves `current` on the root's node.
C4_DescendsMatched ==
  /\ pc = "loop" =>
       Cardinality({i \in 1..Len(stack) : ~stack[i].left}) =
         CountOp(action_buffer, "descend", Len(action_buffer))
           - CountOp(action_buffer, "ascend", Len(action_buffer))
  /\ Expanded =>
       /\ \A n \in 0..Len(action_buffer) :
            CountOp(action_buffer, "ascend", n) <= CountOp(action_buffer, "descend", n)
       /\ CountOp(action_buffer, "ascend", Len(action_buffer)) =
            CountOp(action_buffer, "descend", Len(action_buffer))
  /\ pc = "done" => rt_node = rt_root_node

\* a finished run that went two levels down
C4_Witness ==
  /\ pc = "done" /\ rt_node = rt_root_node
  /\ CountOp(action_buffer, "descend", Len(action_buffer)) = 2

(* ------------------------------- C5 ------------------------------------- *)
\* C5: the block never panics, and whenever an ascend is about to run the
\* current node is in the arena and has a parent.
C5_AscendHasParent ==
  /\ pc # "panic"
  /\ Running("ascend") =>
       /\ rt_node \in 1..Len(arena)
       /\ arena[rt_node].parent # 0

\* an ascend about to run under a freshly inserted root, which has no parent
C5_Witness ==
  /\ Running("ascend") /\ ~TypedNodeId(root_node)
  /\ arena[rt_root_node].parent = 0

(* ------------------------------- C6 ------------------------------------- *)
\* the instruction that ran last
LastRun == action_buffer[ip]
AppendJustRan == Executing /\ pc # "panic" /\ LastRun.op = "append"

\* C6 as stated: a child expression that is a node identifier is reused by
\* its append (the appended node is that identifier, no node is allocated
\* for the expression); any other child expression is inserted fresh.
C6_ChildDispatch ==
  AppendJustRan =>
    IF TypedNodeId(LastRun.expr)
      THEN /\ rt_last = LastRun.expr.val
           /\ \A n \in Fresh : arena[n].data # LastRun.expr.id
      ELSE /\ rt_last = Len(arena)
           /\ arena[rt_last].data = LastRun.expr.id

\* C6 amended: the dispatch governs the root only; every child expression,
\* node identifier or not, is handed to append_value, which allocates one
\* fresh node holding it as the last child of `current`.
C6_ChildAlwaysFresh ==
  /\ Expanded =>
       /\ \A c \in Range(AllSpecs(nodes)) : Pos(c.node.id) # 0
       /\ \A i \in 2..Len(action_buffer) : action_buffer[i].op # "root"
  /\ AppendJustRan =>
       /\ rt_last = Len(arena) /\ rt_last \in Fresh
       /\ arena[rt_last].data = LastRun.expr.id
       /\ arena[rt_last].parent = rt_node
       /\ arena[rt_node].children # <<>>
       /\ arena[rt_node].children[Len(arena[rt_node].children)] = rt_last
       /\ Len(arena) = Len(InitArena) + (IF TypedNodeId(root_node) THEN 0 ELSE 1)
                         + CountOp(action_buffer, "append", ip)

\* the append of a NodeId-typed child expression has just run
C6_Witness == AppendJustRan /\ TypedNodeId(LastRun.expr)

(* ------------------------------- C7 ------------------------------------- *)
\* C7: the block resolves the root exactly once, first; a NodeId root is
\* reused with nothing allocated, any other root becomes one fresh node with
\* no parent; that identifier is the first `current` and the block's value.
C7_RootResolvedOnce ==
  /\ pc \notin {"parse", "seed", "error"} =>
       /\ action_buffer[1] = RootInstr(root_node)
       /\ CountOp(action_buffer, "root", Len(action_buffer)) = 1
  /\ Executing =>
       /\ IF TypedNodeId(root_node)
            THEN /\ rt_root_node = root_node.val
                 /\ \A n \in Fresh : arena[n].data # root_node.id
                 /\ ip = 1 => arena = InitArena
            ELSE /\ rt_root_node = Len(InitArena) + 1
                 /\ arena[rt_root_node].parent = 0
                 /\ {n \in Fresh : arena[n].data = root_node.id} = {rt_root_node}
                 /\ ip = 1 => Len(arena) = Len(InitArena) + 1
       /\ ip = 1 => rt_node = rt_root_node
  /\ pc = "done" => result = rt_root_node

\* a finished run whose root is an existing node that has a parent itself
C7_Witness ==
  /\ pc = "done" /\ TypedNodeId(root_node) /\ result = 2 /\ nodes # <<>>

(* ------------------------------- C8 ------------------------------------- *)
RECURSIVE Malformed(_)
\* an entry directly followed by an expression (a missing comma), or `=>`
\* not followed by a brace group, at any nesting level
Malformed(ts) ==
  \/ \E i \in 1..(Len(ts) - 1) : ts[i].k \in {"expr", "{}"} /\ ts[i + 1].k = "expr"
  \/ \E i \in 1..Len(ts) : ts[i].k = "=>" /\ (i = Len(ts) \/ ts[i + 1].k # "{}")
  \/ \E i \in 1..Len(ts) : ts[i].k = "{}" /\ Malformed(ts[i].body)

\* C8: a malformed input makes the parse fail, and a failed parse emits
\* nothing: no stack, no instruction, and nothing ever runs.
C8_ErrorEmitsNothing ==
  /\ (pc # "parse" /\ Malformed(input)) => pc = "error"
  /\ pc = "error" =>
       /\ action_buffer = <<>> /\ stack = <<>>
       /\ ip = 0 /\ arena = InitArena /\ result = 0

\* the error comes after a child of the forest that parses
C8_Witness ==
  /\ pc = "error" /\ Len(input) = 5 /\ input[5].k = "{}"
  /\ Len(input[5].body) >= 4
  /\ input[5].body[1].k = "expr" /\ input[5].body[2].k = ","
  /\ Malformed(SubSeq(input[5].body, 3, Len(input[5].body)))

(* ------------------------------- C9 ------------------------------------- *)
RECURSIVE TrailingStripped(_)
\* the streams with one trailing comma less: a comma that ends the literal
\* or a brace group and follows an entry
TrailingStripped(ts) ==
  (IF Len(ts) >= 2 /\ ts[Len(ts)].k = "," /\ ts[Len(ts) - 1].k \in {"expr", "{}"}
     THEN {SubSeq(ts, 1, Len(ts) - 1)} ELSE {})
  \cup UNION { { WithBody(ts, i, b) : b \in TrailingStripped(ts[i].body) } : i \in Groups(ts) }

\* C9: a literal with a trailing comma after the last entry of the forest,
\* of a nested children list or after the whole literal parses, and to the
\* IndexTree that the literal without that comma parses to.
C9_TrailingCommaTolerated ==
  pc # "parse" =>
    \A v \in TrailingStripped(input) :
      ParseMacroInput(v).ok =>
        /\ pc # "error"
        /\ ParseMacroInput(v).val = IndexTree(arena_expr, root_node, nodes)

\* tree!(arena, root => { a, b, }) parsed
C9_Witness ==
  /\ pc = "seed" /\ Len(nodes) = 2 /\ Len(input) = 5
  /\ input[5].body[Len(input[5].body)].k = ","

(* ------------------------------- C10 ------------------------------------ *)
RECURSIVE EmptyForestDropped(_)
\* the streams with one `=> {}` after an expression less
EmptyForestDropped(ts) ==
  { SubSeq(ts, 1, i - 1) \o SubSeq(ts, i + 2, Len(ts)) :
      i \in {j \in 2..(Len(ts) - 1) :
               /\ ts[j - 1].k = "expr" /\ ts[j].k = "=>"
               /\ ts[j + 1].k = "{}" /\ ts[j + 1].body = <<>>} }
  \cup UNION { { WithBody(ts, i, b) : b \in EmptyForestDropped(ts[i].body) } : i \in Groups(ts) }

\* C10: `x => {}` parses like `x`, for the root and for any nested node, and
\* the blocks emitted for the two literals are the same; an empty forest
\* emits the root resolution alone, and the append of a node without
\* children is never followed by a descend.
C10_EmptyForestEquivalence ==
  /\ pc # "parse" =>
       \A v \in EmptyForestDropped(input) :
         ParseMacroInput(v).ok =>
           /\ pc # "error"
           /\ ParseMacroInput(v).val = IndexTree(arena_expr, root_node, nodes)
           /\ Expanded =>
                action_buffer = FlattenAll(InitStack(ParseMacroInput(v).val.nodes),
                                           SeedBuffer(ParseMacroInput(v).val.root_node))
  /\ (Expanded /\ nodes = <<>>) => action_buffer = <<RootInstr(root_node), YieldInstr>>
  /\ Expanded =>
       \A c \in Range(AllSpecs(nodes)) :
         c.children = <<>> => action_buffer[Pos(c.node.id) + 1].op # "descend"

\* a literal with a nested `x => {}` expanded
C10_Witness ==
  /\ Expanded /\ nodes # <<>> /\ EmptyForestDropped(input) # {}
====
